---- MODULE Spec2Model ----
(***************************************************************************)
(* The session of StockValuationApp (src/app.js): the loaded symbol and    *)
(* market data, the assumptions and model weights, the held valuation      *)
(* results, the part of the page the handlers write, and the requests in   *)
(* flight to the data provider and the model engine.                       *)
(*                                                                         *)
(* JavaScript values are tagged records.  A number is an exact fraction    *)
(* [k |-> "num", n, d] in lowest terms with d > 0; NaN, the infinities,    *)
(* undefined and null are their own tags.  Strings that the code searches  *)
(* with includes() are sequences of one-character strings.                 *)
(***************************************************************************)
EXTENDS Integers, Sequences, FiniteSets, TLC

VARIABLES
    currentStock,      \* this.currentStock
    stockData,         \* this.stockData
    historicalData,    \* this.historicalData
    assumptions,       \* this.assumptions
    modelWeights,      \* this.modelWeights
    valuationResults,  \* this.valuationResults
    dom,               \* the elements of the page the handlers write
    pendingLoads,      \* loadStockData calls awaiting their responses, oldest first
    pendingCalcs,      \* calculateValuation calls awaiting their response, oldest first
    valuationRequests, \* POST /api/valuation requests sent so far
    calcCalls,         \* calculateValuation calls made with a symbol loaded
    recRun,            \* how updateRecommendation ended in the handler that ran last:
                       \* "shown", "threw", or "none" when the handler did not call it
    heartbeatInterval, \* this.heartbeatInterval (src/unnamed/part_001)
    pendingBeats,      \* sendHeartbeat calls awaiting their response
    heartbeatsSent,    \* GET /health requests sent so far
    heartbeatsFailed   \* heartbeats whose fetch was rejected or answered not ok

heartbeatVars == <<heartbeatInterval, pendingBeats, heartbeatsSent, heartbeatsFailed>>

sessionVars == <<currentStock, stockData, historicalData, assumptions, modelWeights,
                 valuationResults, dom, pendingLoads, pendingCalcs, valuationRequests,
                 calcCalls, recRun>>

vars == <<sessionVars, heartbeatVars>>

----------------------------------------------------------------------------
(* JavaScript values *)

NULL == [k |-> "null"]
Undefined == [k |-> "undefined"]
NaN == [k |-> "NaN"]
PosInfinity == [k |-> "Infinity"]
NegInfinity == [k |-> "-Infinity"]

Abs(i) == IF i < 0 THEN -i ELSE i

RECURSIVE GCD(_, _)
GCD(a, b) == IF b = 0 THEN a ELSE GCD(b, a % b)

\* the fraction n/d, d # 0, in lowest terms with a positive denominator
Frac(n, d) ==
    LET g == GCD(Abs(n), Abs(d))
        s == IF d < 0 THEN -1 ELSE 1
    IN  [k |-> "num", n |-> s * (n \div g), d |-> s * (d \div g)]

Num(i) == [k |-> "num", n |-> i, d |-> 1]

IsNum(x) == x.k = "num"

\* ToNumber: undefined converts to NaN
ToNumber(x) == IF x.k = "undefined" THEN NaN ELSE x

\* x - y
Sub(x, y) ==
    LET a == ToNumber(x)
        b == ToNumber(y)
    IN  IF a.k = "NaN" \/ b.k = "NaN" THEN NaN
        ELSE IF IsNum(a) /\ IsNum(b) THEN Frac(a.n * b.d - b.n * a.d, a.d * b.d)
        ELSE IF IsNum(b) THEN a
        ELSE IF IsNum(a) THEN (IF b.k = "Infinity" THEN NegInfinity ELSE PosInfinity)
        ELSE IF a.k = b.k THEN NaN ELSE a

\* x + y
Add(x, y) ==
    LET a == ToNumber(x)
        b == ToNumber(y)
    IN  IF a.k = "NaN" \/ b.k = "NaN" THEN NaN
        ELSE IF IsNum(a) /\ IsNum(b) THEN Frac(a.n * b.d + b.n * a.d, a.d * b.d)
        ELSE IF IsNum(b) THEN a
        ELSE IF IsNum(a) THEN b
        ELSE IF a.k = b.k THEN a ELSE NaN

Sign(x) == IF IsNum(x) THEN (IF x.n > 0 THEN 1 ELSE IF x.n < 0 THEN -1 ELSE 0)
           ELSE IF x.k = "Infinity" THEN 1 ELSE -1

SignedInfinity(s) == IF s > 0 THEN PosInfinity ELSE NegInfinity

\* x * y
Mul(x, y) ==
    LET a == ToNumber(x)
        b == ToNumber(y)
    IN  IF a.k = "NaN" \/ b.k = "NaN" THEN NaN
        ELSE IF IsNum(a) /\ IsNum(b) THEN Frac(a.n * b.n, a.d * b.d)
        ELSE IF Sign(a) = 0 \/ Sign(b) = 0 THEN NaN
        ELSE SignedInfinity(Sign(a) * Sign(b))

\* x / y: a zero divisor gives an infinity, or NaN for 0/0
Div(x, y) ==
    LET a == ToNumber(x)
        b == ToNumber(y)
    IN  IF a.k = "NaN" \/ b.k = "NaN" THEN NaN
        ELSE IF IsNum(a) /\ IsNum(b) THEN
            IF b.n # 0 THEN Frac(a.n * b.d, a.d * b.n)
            ELSE IF a.n = 0 THEN NaN ELSE SignedInfinity(Sign(a))
        ELSE IF IsNum(a) THEN Num(0)
        ELSE IF IsNum(b) THEN SignedInfinity(Sign(a) * (IF b.n < 0 THEN -1 ELSE 1))
        ELSE NaN

\* x > y; every comparison with NaN is false
Gt(x, y) ==
    LET a == ToNumber(x)
        b == ToNumber(y)
    IN  IF a.k = "NaN" \/ b.k = "NaN" THEN FALSE
        ELSE IF IsNum(a) /\ IsNum(b) THEN a.n * b.d > b.n * a.d
        ELSE IF a.k = b.k THEN FALSE
        ELSE IF IsNum(a) THEN b.k = "-Infinity"
        ELSE a.k = "Infinity"

Lt(x, y) == Gt(y, x)

\* Math.abs(x)
MathAbs(x) ==
    LET a == ToNumber(x)
    IN  IF a.k = "NaN" THEN NaN
        ELSE IF IsNum(a) THEN Frac(Abs(a.n), a.d)
        ELSE PosInfinity

\* the truthiness of a value: null, undefined, NaN and 0 are falsy
Truthy(x) ==
    /\ x.k \notin {"null", "undefined", "NaN"}
    /\ (IsNum(x) => x.n # 0)

\* a || b
Or(a, b) == IF Truthy(a) THEN a ELSE b

\* the integer nearest to n/d (d > 0), a tie going away from zero
RoundDiv(n, d) ==
    LET q == (2 * Abs(n) + d) \div (2 * d)
    IN  IF n < 0 THEN -q ELSE q

----------------------------------------------------------------------------
(* The doubles of the weight total.  A weight is a number of tenths that   *)
(* a double holds only nearly, and the total is compared with 0.1, so the  *)
(* sum is followed bit by bit: [t, e] is the double t/10 + e * 2^-56 / 10, *)
(* t the tenths meant and e the rounding error so far.                     *)

\* 2^n mod 10 and 2^n mod 20
TwoPowerMod10(n) == IF n = 0 THEN 1 ELSE <<6, 2, 4, 8>>[(n % 4) + 1]
TwoPowerMod20(n) == IF n < 2 THEN 2^n ELSE <<16, 12, 4, 8>>[(n % 4) + 1]

\* the double nearest to t/10 + e * 2^-56 / 10, ties to even, for t >= 0: the
\* spacing of the doubles around it is g = 10 * 2^j of the units of e
DoubleRounded(t, e) ==
    IF t = 0 THEN [t |-> 0, e |-> e]
    ELSE LET top == CHOOSE j \in 0..13 : 10 * 2^j <= 16 * t /\ 16 * t < 10 * 2^(j + 1)
             j == IF 16 * t = 10 * 2^top /\ e < 0 THEN top - 1 ELSE top
             g == 10 * 2^j
             r == (2^j * (((t % 10) * TwoPowerMod10(56 - j)) % 10) + e) % g
             r2 == (2^j * (((t % 20) * TwoPowerMod20(56 - j)) % 20) + e) % (2 * g)
             down == [t |-> t, e |-> e - r]
             up == [t |-> t, e |-> e + g - r]
         IN  IF 2 * r < g THEN down
             ELSE IF 2 * r > g THEN up
             ELSE IF r2 < g THEN down ELSE up

\* the double a weight is: parseFloat of the slider's text, or the literal 25
ParseDouble(x) == DoubleRounded((x.n * 10) \div x.d, 0)

\* a + b
DoubleAdd(a, b) == DoubleRounded(a.t + b.t, a.e + b.e)

\* Math.abs(a - c) for an integer c; the difference of two doubles within a
\* factor of two of each other is exact
DoubleAbsDiff(a, c) ==
    LET t == a.t - 10 * c
        negative == t < 0 \/ (t = 0 /\ a.e < 0)
        abs == IF negative THEN [t |-> -t, e |-> -a.e] ELSE [t |-> t, e |-> a.e]
    IN  IF 5 * c <= a.t /\ a.t <= 20 * c THEN abs ELSE DoubleRounded(abs.t, abs.e)

\* a < b
DoubleLt(a, b) == a.t < b.t \/ (a.t = b.t /\ a.e < b.e)

\* a.toFixed(1), for a >= 0
DoubleToFixed1(a) == [k |-> "fixed", neg |-> FALSE, tenths |-> a.t]

----------------------------------------------------------------------------
(* Strings searched with includes() *)

\* s.includes(t), on sequences of characters
Includes(s, t) ==
    \E i \in 1..(Len(s) - Len(t) + 1) : SubSeq(s, i, i + Len(t) - 1) = t

BUY == <<"B", "U", "Y">>
SELL == <<"S", "E", "L", "L">>
HOLD == <<"H", "O", "L", "D">>
STRONG_SELL == <<"S", "T", "R", "O", "N", "G", " ">> \o SELL
Dashes == <<"-", "-">>

----------------------------------------------------------------------------
(* Formatting *)

DashText == [k |-> "--"]

\* formatCurrency: "--" for a falsy value or NaN, else the value in VND with
\* no fraction digits
formatCurrency(value) ==
    IF ~Truthy(value) THEN DashText
    ELSE IF IsNum(value) THEN [k |-> "VND", v |-> RoundDiv(value.n, value.d)]
    ELSE [k |-> "VND", special |-> value.k]

\* x.toFixed(1): one fraction digit, the sign kept apart as toFixed does
ToFixed1(x) ==
    LET a == ToNumber(x)
    IN  IF IsNum(a)
        THEN [k |-> "fixed", neg |-> a.n < 0, tenths |-> RoundDiv(10 * Abs(a.n), a.d)]
        ELSE [k |-> "fixed", special |-> a.k]

\* `${plus ? '+' : ''}${x.toFixed(1)}%`
PercentText(plus, x) == [k |-> "pct", plus |-> plus, val |-> ToFixed1(x)]

\* `${x > 0 ? '+' : ''}${x.toFixed(1)}%`
SignedPercentText(x) == PercentText(Gt(x, Num(0)), x)

----------------------------------------------------------------------------
(* The session's constants *)

Models == {"fcfe", "fcff", "justified_pe", "justified_pb"}

\* the slider behind each weight
SliderOf == [m \in Models |->
    CASE m = "fcfe" -> "fcfe-weight"
      [] m = "fcff" -> "fcff-weight"
      [] m = "justified_pe" -> "pe-weight"
      [] m = "justified_pb" -> "pb-weight"]

SliderIds == {SliderOf[m] : m \in Models}

DefaultWeight == 25

DefaultWeights == [m \in Models |-> Num(DefaultWeight)]

DefaultAssumptions == [
    revenueGrowth |-> Num(8),
    terminalGrowth |-> Num(3),
    wacc |-> Frac(105, 10),
    requiredReturn |-> Num(12),
    taxRate |-> Num(20),
    projectionYears |-> Num(5)]

AssumptionFields == DOMAIN DefaultAssumptions

\* parseFloat of a form field: the number typed, NaN for an empty field
ParseFloat(text) == IF IsNum(text) THEN text ELSE NaN

\* parseInt of a form field: the integer part of the number typed
ParseInt(text) ==
    IF IsNum(text)
    THEN Num((IF text.n < 0 THEN -1 ELSE 1) * (Abs(text.n) \div text.d))
    ELSE NaN

BuyThreshold == 15

WeightTotal == 100

\* |total - 100| < 0.1
WeightTolerance == DoubleRounded(1, 0)

----------------------------------------------------------------------------
(* The routines that write the page.  Each takes the page d, the held      *)
(* results vr and the market data sd, and gives the page it leaves.  A     *)
(* routine that throws leaves the writes it made before the throw.         *)

\* the upside, were it taken relative to the target instead of the price
UpsidePercentOfTarget(value, currentPrice) ==
    Mul(Div(Sub(value, currentPrice), value), Num(100))

\* ((value - currentPrice) / currentPrice) * 100
UpsidePercent(value, currentPrice) ==
    Mul(Div(Sub(value, currentPrice), currentPrice), Num(100))

showStatus(d, message, type) ==
    [d EXCEPT !.status = [message |-> message, type |-> type]]

\* showLoading, were it never to give the button back
showLoadingStuck(d, show) ==
    [d EXCEPT !.loadBtn = IF show THEN "Loading..." ELSE "Load Company Data",
              !.loadBtnDisabled = TRUE]

showLoading(d, show) ==
    [d EXCEPT !.loadBtn = IF show THEN "Loading..." ELSE "Load Company Data",
              !.loadBtnDisabled = show]

updateWeightDisplay(d, weights) ==
    [d EXCEPT !.weightValues = [m \in Models |-> PercentText(FALSE, weights[m])]]

TotalOf(weights) ==
    DoubleAdd(DoubleAdd(DoubleAdd(ParseDouble(weights.fcfe), ParseDouble(weights.fcff)),
                        ParseDouble(weights.justified_pe)),
              ParseDouble(weights.justified_pb))

\* Math.abs(total - 100) < 0.1
WithinTolerance(total) == DoubleLt(DoubleAbsDiff(total, WeightTotal), WeightTolerance)

updateTotalWeight(d, weights) ==
    LET total == TotalOf(weights)
    IN  [d EXCEPT !.totalWeight = DoubleToFixed1(total),
                  !.totalWeightClass =
                      IF WithinTolerance(total)
                      THEN "weight-total-correct"
                      ELSE "weight-total-incorrect"]

updateWeightedResults(d, vr, sd) ==
    LET weightedValue == vr.weighted_average
        currentPrice == sd.current_price
        weightedDiff == UpsidePercent(weightedValue, currentPrice)
    IN  [d EXCEPT !.weightedResult = formatCurrency(weightedValue),
                  !.weightedDiff = SignedPercentText(weightedDiff),
                  !.weightedDiffClass =
                      IF Gt(weightedDiff, Num(0)) THEN "positive" ELSE "negative",
                  !.targetPrice = formatCurrency(weightedValue),
                  !.summaryPotential = PercentText(FALSE, weightedDiff),
                  !.returnValue = PercentText(FALSE, weightedDiff)]

\* recommendation.includes(...) on a recommendation that is undefined
updateRecommendationThrows(vr) ==
    /\ Truthy(vr.market_comparison)
    /\ vr.market_comparison.recommendation.k # "str"

\* the test, were the engine's recommendation never looked at
MarketComparisonIgnored(vr) == FALSE

\* if (this.valuationResults.market_comparison)
HasMarketComparison(vr) == Truthy(vr.market_comparison)

updateRecommendation(d, vr, sd) ==
    LET weightedValue == vr.weighted_average
        currentPrice == sd.current_price
        upside == UpsidePercent(weightedValue, currentPrice)
        engine == HasMarketComparison(vr)
        recommendation ==
            IF engine THEN vr.market_comparison.recommendation.s
            ELSE IF Gt(upside, Num(BuyThreshold)) THEN BUY
            ELSE IF Lt(upside, Num(-BuyThreshold)) THEN SELL
            ELSE HOLD
        status ==
            IF engine
            THEN IF Includes(recommendation, BUY) THEN "positive"
                 ELSE IF Includes(recommendation, SELL) THEN "negative"
                 ELSE "neutral"
            ELSE IF Gt(upside, Num(BuyThreshold)) THEN "positive"
            ELSE IF Lt(upside, Num(-BuyThreshold)) THEN "negative"
            ELSE "neutral"
        reasoning ==
            IF engine
            THEN [k |-> "4-model average vs current price",
                  average |-> formatCurrency(weightedValue),
                  price |-> formatCurrency(currentPrice)]
            ELSE IF Gt(upside, Num(BuyThreshold)) THEN [k |-> "undervaluation"]
            ELSE IF Lt(upside, Num(-BuyThreshold)) THEN [k |-> "overvaluation"]
            ELSE [k |-> "fairly valued"]
    IN  IF updateRecommendationThrows(vr) THEN d
        ELSE [d EXCEPT !.recommendation = recommendation,
                       !.recommendationStatus = status,
                       !.finalRecommendation = recommendation,
                       !.finalRecommendationStatus = status,
                       !.reasoning = reasoning]

\* this.valuationResults.financial_data.eps on financial_data that is undefined
updateModelDetailsThrows(vr) ==
    \/ ~Truthy(vr.financial_data)
    \/ updateRecommendationThrows(vr)

updateModelDetails(d, vr, sd) ==
    LET currentPrice == sd.current_price
        upside == UpsidePercent(vr.weighted_average, currentPrice)
        written == [d EXCEPT !.fcfeEquity = formatCurrency(vr.fcfe.equityValue),
                             !.fcffEquity = formatCurrency(vr.fcff.equityValue),
                             !.targetPrice = formatCurrency(vr.weighted_average),
                             !.summaryPotential = SignedPercentText(upside)]
    IN  IF ~Truthy(vr.financial_data) THEN d
        ELSE updateRecommendation(written, vr, sd)

updateValuationDisplayThrows(vr) == updateModelDetailsThrows(vr)

updateValuationDisplay(d, vr, sd) ==
    LET currentPrice == sd.current_price
        weightedValue == vr.weighted_average
        weightedDiff == UpsidePercent(weightedValue, currentPrice)
        written == [d EXCEPT
            !.modelResults = [m \in Models |-> formatCurrency(vr[m].shareValue)],
            !.weightedResult = formatCurrency(weightedValue),
            !.weightedDiff = SignedPercentText(weightedDiff),
            !.weightedDiffClass =
                IF Gt(weightedDiff, Num(0)) THEN "positive" ELSE "negative",
            !.targetPrice = formatCurrency(weightedValue),
            !.summaryPotential = PercentText(FALSE, weightedDiff),
            !.returnValue = PercentText(FALSE, weightedDiff)]
    IN  updateModelDetails(written, vr, sd)

updateOverviewDisplay(d, data) ==
    [d EXCEPT !.companySymbol = data.symbol,
              !.currentPrice = formatCurrency(data.current_price)]

clearCharts(d) == [d EXCEPT !.charts = NULL]

updateCharts(d, hist) == [d EXCEPT !.charts = hist]

\* the page as clearDisplay leaves it
clearDisplay(d) ==
    [d EXCEPT !.companySymbol = DashText,
              !.currentPrice = DashText,
              !.modelResults = [m \in Models |-> DashText],
              !.weightedResult = DashText,
              !.weightedDiff = DashText,
              !.targetPrice = DashText,
              !.summaryPotential = DashText,
              !.returnValue = DashText,
              !.fcfeEquity = DashText,
              !.fcffEquity = DashText,
              !.recommendation = Dashes,
              !.recommendationStatus = "warning",
              !.finalRecommendation = Dashes,
              !.finalRecommendationStatus = "warning",
              !.reasoning = [k |-> "Please load company data"],
              !.exportDisabled = TRUE]

\* clearDisplay, were it to leave the held results alone
clearDisplayKeepsResults(vr) == vr

\* the last statement of clearDisplay: this.valuationResults = null
clearDisplayResults(vr) == NULL

Str(s) == [k |-> "str", s |-> s]

\* the page as index.html gives it, before the constructor runs; stockSymbol is
\* the symbol box as the last loadStockData that sent its requests read it
InitialPage == [
    stockSymbol |-> Str(""),
    status |-> [message |-> <<>>, type |-> "hidden"],
    loadBtn |-> "Load Company Data",
    loadBtnDisabled |-> FALSE,
    companySymbol |-> DashText,
    currentPrice |-> DashText,
    weightValues |-> [m \in Models |-> PercentText(FALSE, Num(DefaultWeight))],
    totalWeight |-> ToFixed1(Num(WeightTotal)),
    totalWeightClass |-> "weight-total-correct",
    modelResults |-> [m \in Models |-> DashText],
    weightedResult |-> DashText,
    weightedDiff |-> DashText,
    weightedDiffClass |-> "",
    targetPrice |-> DashText,
    summaryPotential |-> DashText,
    returnValue |-> DashText,
    fcfeEquity |-> DashText,
    fcffEquity |-> DashText,
    recommendation |-> <<"Waiting for data">>,
    recommendationStatus |-> "",
    finalRecommendation |-> <<"Waiting for data">>,
    finalRecommendationStatus |-> "",
    reasoning |-> [k |-> "Please load company data and perform valuation calculations"],
    exportDisabled |-> TRUE,
    charts |-> NULL]

----------------------------------------------------------------------------
(* What the user types and what the servers answer *)

\* the symbol box after trim() and toUpperCase()
Symbols == {Str("VCB")}

\* the bodies GET /api/app-data/{symbol} answers with success true: with a price
\* and with a price of 0
MarketData(symbol) ==
    {[k |-> "object", success |-> TRUE, symbol |-> symbol, current_price |-> Num(100000),
      shares_outstanding |-> Num(1000)],
     [k |-> "object", success |-> TRUE, symbol |-> symbol, current_price |-> Num(0),
      shares_outstanding |-> Num(1000)]}

FailureBody == [k |-> "object", success |-> FALSE, error |-> Undefined]

\* the data of GET /api/historical-chart-data/{symbol}
HistoricalSeries(symbol) == [k |-> "series", symbol |-> symbol]

ChartAnswers == {"ok"}

HttpStatuses == {200, 404}

FetchOutcomes == {"response"}

ShareValues == [fcfe |-> Num(100000), fcff |-> Num(110000),
                justified_pe |-> Num(90000), justified_pb |-> Num(95000)]

WeightedAverages == {Num(84000), Num(85000), Num(98750), Num(115000), Num(116000)}

EngineRecommendation(text) == [k |-> "object", recommendation |-> Str(text)]

EngineResult(v, a, f, c) ==
    [k |-> "object", success |-> TRUE,
     valuations |-> [fcfe |-> v.fcfe, fcff |-> v.fcff, justified_pe |-> v.justified_pe,
                     justified_pb |-> v.justified_pb, weighted_average |-> a],
     financial_data |-> f,
     market_comparison |-> c]

EngineFinancialData == [k |-> "object", shares_outstanding |-> Num(2000)]

\* the bodies POST /api/valuation/{symbol} answers with success true: every
\* weighted average without a market comparison, the engine's recommendations at
\* the outermost averages, and one body each with a market comparison that has no
\* recommendation, with a model value missing and with no financial data
EngineResults ==
    {EngineResult(ShareValues, a, EngineFinancialData, Undefined) :
        a \in WeightedAverages}
    \cup {EngineResult(ShareValues, a, EngineFinancialData, EngineRecommendation(text)) :
        a \in {Num(116000)}, text \in {BUY, STRONG_SELL, HOLD}}
    \cup {EngineResult(ShareValues, Num(98750), EngineFinancialData,
                       [k |-> "object", recommendation |-> Undefined]),
          EngineResult([ShareValues EXCEPT !.fcfe = Undefined], Num(73750),
                       EngineFinancialData, Undefined),
          EngineResult(ShareValues, Num(98750), Undefined, Undefined)}

\* what a slider reports
SliderValues == {Num(50)}

\* a field of the assumptions form and what is typed into it: an empty field
AssumptionEdits == {<<"revenueGrowth", Str("")>>}

MaxPendingLoads == 1

MaxPendingCalcs == 1

MaxCalcCalls == 2

\* s without its i-th element
Remove(s, i) == SubSeq(s, 1, i - 1) \o SubSeq(s, i + 1, Len(s))

----------------------------------------------------------------------------
(* The state after the constructor and init() *)

\* the fields and the page after the constructor and init()
SessionInit ==
    /\ currentStock = NULL
    /\ stockData = NULL
    /\ historicalData = NULL
    /\ assumptions = DefaultAssumptions
    /\ modelWeights = DefaultWeights
    /\ valuationResults = NULL
    /\ dom = updateTotalWeight(updateWeightDisplay(InitialPage, DefaultWeights),
                               DefaultWeights)
    /\ pendingLoads = <<>>
    /\ pendingCalcs = <<>>
    /\ valuationRequests = 0
    /\ calcCalls = 0
    /\ recRun = "none"

\* src/app.js has no heartbeat
Init ==
    /\ SessionInit
    /\ heartbeatInterval = NULL
    /\ pendingBeats = 0
    /\ heartbeatsSent = 0
    /\ heartbeatsFailed = 0

----------------------------------------------------------------------------
(* Weights and assumptions *)

\* updateModelWeights, were the slider's value added to the weight held
WeightsAfterAdding(weights, sliderId, value) ==
    [m \in Models |-> IF SliderOf[m] = sliderId THEN Add(weights[m], value) ELSE weights[m]]

\* the weight a slider sets
WeightsAfter(weights, sliderId, value) ==
    [m \in Models |-> IF SliderOf[m] = sliderId THEN value ELSE weights[m]]

\* the tail of the weight handlers, were it to assess results that are not
\* held: an upside that is not a number is neither above 15 nor below -15
PageAfterWeightsUnguarded(d, weights, vr, sd) ==
    LET shown == updateTotalWeight(updateWeightDisplay(d, weights), weights)
    IN  IF Truthy(vr)
        THEN updateRecommendation(updateWeightedResults(shown, vr, sd), vr, sd)
        ELSE [shown EXCEPT !.weightedResult = DashText,
                           !.recommendation = HOLD,
                           !.recommendationStatus = "neutral",
                           !.finalRecommendation = HOLD,
                           !.finalRecommendationStatus = "neutral",
                           !.reasoning = [k |-> "fairly valued"]]

\* the page after the tail shared by updateModelWeights and normalizeWeights
PageAfterWeights(d, weights, vr, sd) ==
    LET shown == updateTotalWeight(updateWeightDisplay(d, weights), weights)
    IN  IF Truthy(vr)
        THEN updateRecommendation(updateWeightedResults(shown, vr, sd), vr, sd)
        ELSE shown

\* the tail shared by updateModelWeights and normalizeWeights
RefreshAfterWeights(weights) ==
    /\ dom' = PageAfterWeights(dom, weights, valuationResults, stockData)
    /\ recRun' = IF Truthy(valuationResults)
                 THEN IF updateRecommendationThrows(valuationResults)
                      THEN "threw" ELSE "shown"
                 ELSE "none"

\* updateModelWeights, were it to apply the new weight to the held value in place
updateModelWeightsRescaling(sliderId, value) ==
    /\ modelWeights' = WeightsAfter(modelWeights, sliderId, value)
    /\ RefreshAfterWeights(modelWeights')
    /\ valuationResults' =
           IF Truthy(valuationResults)
           THEN [valuationResults EXCEPT !.fcfe.shareValue =
                    Mul(@, Div(value, Num(DefaultWeight)))]
           ELSE valuationResults
    /\ UNCHANGED <<currentStock, stockData, historicalData, assumptions,
                   pendingLoads, pendingCalcs, valuationRequests, calcCalls>>
    /\ UNCHANGED heartbeatVars

updateModelWeights(sliderId, value) ==
    /\ modelWeights' = WeightsAfter(modelWeights, sliderId, value)
    /\ RefreshAfterWeights(modelWeights')
    /\ UNCHANGED <<currentStock, stockData, historicalData, assumptions,
                   valuationResults, pendingLoads, pendingCalcs, valuationRequests,
                   calcCalls>>
    /\ UNCHANGED heartbeatVars

\* normalizeWeights, were it to scale the weights held to a sum of 100
normalizeWeightsScaling ==
    /\ LET total == Add(Add(Add(modelWeights.fcfe, modelWeights.fcff),
                            modelWeights.justified_pe), modelWeights.justified_pb)
       IN  modelWeights' =
               IF total = Num(0) THEN DefaultWeights
               ELSE [m \in Models |-> Div(Mul(modelWeights[m], Num(WeightTotal)), total)]
    /\ dom' = [PageAfterWeights(dom, modelWeights', valuationResults, stockData)
                  EXCEPT !.totalWeight = ToFixed1(Num(WeightTotal)),
                         !.totalWeightClass = "weight-total-correct"]
    /\ recRun' = IF Truthy(valuationResults)
                 THEN IF updateRecommendationThrows(valuationResults)
                      THEN "threw" ELSE "shown"
                 ELSE "none"
    /\ UNCHANGED <<currentStock, stockData, historicalData, assumptions,
                   valuationResults, pendingLoads, pendingCalcs, valuationRequests,
                   calcCalls>>
    /\ UNCHANGED heartbeatVars

normalizeWeights ==
    /\ modelWeights' = [m \in Models |-> Num(DefaultWeight)]
    /\ RefreshAfterWeights(modelWeights')
    /\ UNCHANGED <<currentStock, stockData, historicalData, assumptions,
                   valuationResults, pendingLoads, pendingCalcs, valuationRequests,
                   calcCalls>>
    /\ UNCHANGED heartbeatVars

AssumptionsAfter(field, text) ==
    [assumptions EXCEPT ![field] =
        IF field = "projectionYears" THEN ParseInt(text) ELSE ParseFloat(text)]

\* updateAssumptions, were it to recalculate on every edit of the form
updateAssumptionsRecalculating(field, text) ==
    /\ assumptions' = AssumptionsAfter(field, text)
    /\ recRun' = "none"
    /\ IF Truthy(currentStock) /\ Len(pendingCalcs) < MaxPendingCalcs
       THEN /\ pendingCalcs' = Append(pendingCalcs, [symbol |-> currentStock])
            /\ valuationRequests' = valuationRequests + 1
       ELSE UNCHANGED <<pendingCalcs, valuationRequests>>
    /\ UNCHANGED <<currentStock, stockData, historicalData, modelWeights,
                   valuationResults, dom, pendingLoads, calcCalls>>
    /\ UNCHANGED heartbeatVars

updateAssumptions(field, text) ==
    /\ assumptions' = AssumptionsAfter(field, text)
    /\ recRun' = "none"
    /\ UNCHANGED <<currentStock, stockData, historicalData, modelWeights,
                   valuationResults, dom, pendingLoads, pendingCalcs,
                   valuationRequests, calcCalls>>
    /\ UNCHANGED heartbeatVars

\* resetAssumptions, were it to put the weights back to 25 as well
resetAssumptionsAndWeights ==
    /\ assumptions' = DefaultAssumptions
    /\ modelWeights' = DefaultWeights
    /\ dom' = updateTotalWeight(updateWeightDisplay(dom, modelWeights'), modelWeights')
    /\ recRun' = "none"
    /\ UNCHANGED <<currentStock, stockData, historicalData,
                   valuationResults, pendingLoads, pendingCalcs, valuationRequests,
                   calcCalls>>
    /\ UNCHANGED heartbeatVars

resetAssumptions ==
    /\ assumptions' = DefaultAssumptions
    /\ dom' = updateTotalWeight(updateWeightDisplay(dom, modelWeights), modelWeights)
    /\ recRun' = "none"
    /\ UNCHANGED <<currentStock, stockData, historicalData, modelWeights,
                   valuationResults, pendingLoads, pendingCalcs, valuationRequests,
                   calcCalls>>
    /\ UNCHANGED heartbeatVars

----------------------------------------------------------------------------
(* loadStockData *)

\* the symbol box is empty
loadStockDataEmpty ==
    /\ dom' = showStatus(dom, <<"Please enter a stock symbol">>, "error")
    /\ recRun' = "none"
    /\ UNCHANGED <<currentStock, stockData, historicalData, assumptions, modelWeights,
                   valuationResults, pendingLoads, pendingCalcs, valuationRequests,
                   calcCalls>>
    /\ UNCHANGED heartbeatVars

\* up to the first await, with fewer than bound loads in flight: the two
\* requests are on their way
loadStockDataSendUpTo(bound, symbol) ==
    /\ Len(pendingLoads) < bound
    /\ dom' = showStatus(showLoading([dom EXCEPT !.stockSymbol = symbol], TRUE),
                         <<"Loading data...">>, "info")
    /\ pendingLoads' = Append(pendingLoads, [symbol |-> symbol])
    /\ recRun' = "none"
    /\ UNCHANGED <<currentStock, stockData, historicalData, assumptions, modelWeights,
                   valuationResults, pendingCalcs, valuationRequests, calcCalls>>
    /\ UNCHANGED heartbeatVars

loadStockDataSend(symbol) == loadStockDataSendUpTo(MaxPendingLoads, symbol)

ResponseOk(status) == status >= 200 /\ status <= 299

\* the error loadStockData throws for what came back, or <<>> when it throws none
LoadError(fetched, status, body) ==
    IF fetched = "aborted" THEN <<"AbortError">>
    ELSE IF fetched = "rejected" THEN <<"Failed to fetch">>
    ELSE IF ~ResponseOk(status) THEN
        IF status = 404 THEN <<"No data found for this stock symbol">>
        ELSE IF status = 500 THEN <<"Server error while loading data">>
        ELSE <<"Unable to connect to server">>
    ELSE IF ~body.success THEN
        IF Truthy(body.error) THEN <<body.error.s>>
        ELSE <<"Unable to load data from server">>
    ELSE <<>>

\* this.historicalData, were the series held kept when no new one arrives
HistoricalFromKeeping(chart, symbol) ==
    IF chart = "ok" THEN HistoricalSeries(symbol) ELSE historicalData

\* chartData.success ? chartData.data : null, where chartData is the body of an
\* OK response and { success: false, data: {} } for any other response
HistoricalFrom(chart, symbol) ==
    LET chartData ==
            IF chart = "ok" THEN [success |-> TRUE, data |-> HistoricalSeries(symbol)]
            ELSE IF chart = "unsuccessful" THEN [success |-> FALSE, data |-> Undefined]
            ELSE [success |-> FALSE, data |-> [k |-> "object"]]
    IN  IF chartData.success THEN chartData.data ELSE NULL

\* loadStockData, were the answer to a load overtaken by a later load dropped
loadStockDataCompleteFresh(i, fetched, status, body, chart) ==
    /\ i \in 1..Len(pendingLoads)
    /\ LET symbol == pendingLoads[i].symbol
           error == LoadError(fetched, status, body)
           hist == HistoricalFrom(chart, symbol)
       IN  /\ body.success => body.symbol = symbol
           /\ IF error = <<>> /\ i < Len(pendingLoads)
              THEN /\ dom' = showLoading(dom, FALSE)
                   /\ UNCHANGED <<stockData, currentStock, historicalData,
                                  valuationResults, recRun>>
              ELSE IF error = <<>>
              THEN /\ stockData' = body
                   /\ currentStock' = symbol
                   /\ historicalData' = hist
                   /\ dom' = showLoading(
                          showStatus(
                              IF Truthy(hist)
                              THEN updateCharts(updateOverviewDisplay(dom, body), hist)
                              ELSE clearCharts(updateOverviewDisplay(dom, body)),
                              <<"Data loaded successfully">>, "success"),
                          FALSE)
                   /\ recRun' = "none"
                   /\ UNCHANGED valuationResults
              ELSE /\ stockData' = NULL
                   /\ currentStock' = NULL
                   /\ historicalData' = NULL
                   /\ valuationResults' = clearDisplayResults(valuationResults)
                   /\ dom' = showLoading(
                          clearCharts(clearDisplay(
                              IF error = <<"AbortError">>
                              THEN showStatus(dom, <<"Timeout - Please try again later.">>,
                                              "error")
                              ELSE showStatus(dom, <<"Data loading error: ">> \o error,
                                              "error"))),
                          FALSE)
                   /\ recRun' = "none"
    /\ pendingLoads' = Remove(pendingLoads, i)
    /\ UNCHANGED <<assumptions, modelWeights, pendingCalcs, valuationRequests, calcCalls>>
    /\ UNCHANGED heartbeatVars

\* from the first await to the end, for the i-th load in flight
loadStockDataComplete(i, fetched, status, body, chart) ==
    /\ i \in 1..Len(pendingLoads)
    /\ LET symbol == pendingLoads[i].symbol
           error == LoadError(fetched, status, body)
           hist == HistoricalFrom(chart, symbol)
       IN  /\ body.success => body.symbol = symbol
           /\ IF error = <<>>
              THEN /\ stockData' = body
                   /\ currentStock' = symbol
                   /\ historicalData' = hist
                   /\ dom' = showLoading(
                          showStatus(
                              IF Truthy(hist)
                              THEN updateCharts(updateOverviewDisplay(dom, body), hist)
                              ELSE clearCharts(updateOverviewDisplay(dom, body)),
                              <<"Data loaded successfully">>, "success"),
                          FALSE)
                   /\ recRun' = "none"
                   /\ UNCHANGED valuationResults
              ELSE /\ stockData' = NULL
                   /\ currentStock' = NULL
                   /\ historicalData' = NULL
                   /\ valuationResults' = clearDisplayResults(valuationResults)
                   /\ dom' = showLoading(
                          clearCharts(clearDisplay(
                              IF error = <<"AbortError">>
                              THEN showStatus(dom, <<"Timeout - Please try again later.">>,
                                              "error")
                              ELSE showStatus(dom, <<"Data loading error: ">> \o error,
                                              "error"))),
                          FALSE)
                   /\ recRun' = "none"
    /\ pendingLoads' = Remove(pendingLoads, i)
    /\ UNCHANGED <<assumptions, modelWeights, pendingCalcs, valuationRequests, calcCalls>>
    /\ UNCHANGED heartbeatVars

----------------------------------------------------------------------------
(* calculateValuation *)

\* no symbol is loaded
calculateValuationNoStock ==
    /\ ~Truthy(currentStock)
    /\ dom' = showStatus(dom, <<"Please load company data first">>, "error")
    /\ recRun' = "none"
    /\ UNCHANGED <<currentStock, stockData, historicalData, assumptions, modelWeights,
                   valuationResults, pendingLoads, pendingCalcs, valuationRequests,
                   calcCalls>>
    /\ UNCHANGED heartbeatVars

\* up to the await of fetch, with fewer than bound calculations in flight: the
\* request is on its way
calculateValuationSendUpTo(bound) ==
    /\ Truthy(currentStock)
    /\ Len(pendingCalcs) < bound
    /\ calcCalls < MaxCalcCalls
    /\ dom' = showStatus(dom, <<"Calculating valuation models...">>, "info")
    /\ pendingCalcs' = Append(pendingCalcs, [symbol |-> currentStock])
    /\ valuationRequests' = valuationRequests + 1
    /\ calcCalls' = calcCalls + 1
    /\ recRun' = "none"
    /\ UNCHANGED <<currentStock, stockData, historicalData, assumptions, modelWeights,
                   valuationResults, pendingLoads>>
    /\ UNCHANGED heartbeatVars

\* calculateValuation, were it to refuse weights whose total is marked incorrect
calculateValuationSendBalanced ==
    /\ dom.totalWeightClass = "weight-total-correct"
    /\ calculateValuationSendUpTo(MaxPendingCalcs)

calculateValuationSend == calculateValuationSendUpTo(MaxPendingCalcs)

\* the error thrown before this.valuationResults is assigned, or <<>>
CalcError(fetched, status, result) ==
    IF fetched = "rejected" THEN <<"Failed to fetch">>
    ELSE IF ~ResponseOk(status) THEN <<"HTTP error! status: ", ToString(status)>>
    ELSE IF ~result.success THEN
        IF Truthy(result.error) THEN <<result.error.s>>
        ELSE <<"Valuation calculation failed">>
    ELSE IF ~Truthy(stockData) THEN <<"TypeError: this.stockData is null">>
    ELSE IF ~Truthy(stockData.shares_outstanding) /\ ~Truthy(result.financial_data)
        THEN <<"TypeError: result.financial_data is undefined">>
    ELSE <<>>

\* the object assigned to this.valuationResults
ResultsFrom(result, sd) ==
    LET shares == IF Truthy(sd.shares_outstanding) THEN sd.shares_outstanding
                  ELSE result.financial_data.shares_outstanding
    IN  [k |-> "object",
         fcfe |-> [shareValue |-> result.valuations.fcfe,
                   equityValue |-> Mul(result.valuations.fcfe, shares)],
         fcff |-> [shareValue |-> result.valuations.fcff,
                   equityValue |-> Mul(result.valuations.fcff, shares)],
         justified_pe |-> [shareValue |-> result.valuations.justified_pe],
         justified_pb |-> [shareValue |-> result.valuations.justified_pb],
         weighted_average |-> result.valuations.weighted_average,
         market_comparison |-> result.market_comparison,
         financial_data |-> result.financial_data]

\* calculateValuation, were its catch the catch of loadStockData
calculateValuationCompleteClearing(i, fetched, status, result) ==
    /\ i \in 1..Len(pendingCalcs)
    /\ LET error == CalcError(fetched, status, result)
           vr == ResultsFrom(result, stockData)
       IN  IF error # <<>>
           THEN /\ dom' = clearCharts(clearDisplay(
                              showStatus(dom, <<"Error calculating valuation: ">> \o error,
                                         "error")))
                /\ recRun' = "none"
                /\ valuationResults' = NULL
                /\ stockData' = NULL
                /\ currentStock' = NULL
                /\ historicalData' = NULL
           ELSE /\ valuationResults' = vr
                /\ UNCHANGED <<currentStock, stockData, historicalData>>
                /\ IF updateValuationDisplayThrows(vr)
                   THEN /\ dom' = showStatus(
                               updateValuationDisplay(dom, vr, stockData),
                               <<"Error calculating valuation: ", "TypeError">>, "error")
                        /\ recRun' = IF Truthy(vr.financial_data) THEN "threw"
                                     ELSE "none"
                   ELSE /\ dom' = showStatus(
                               [updateRecommendation(
                                    updateWeightedResults(
                                        updateValuationDisplay(dom, vr, stockData),
                                        vr, stockData),
                                    vr, stockData)
                                EXCEPT !.exportDisabled = FALSE],
                               <<"Valuation calculation completed">>, "success")
                        /\ recRun' = "shown"
    /\ pendingCalcs' = Remove(pendingCalcs, i)
    /\ UNCHANGED <<assumptions, modelWeights, pendingLoads, valuationRequests,
                   calcCalls>>
    /\ UNCHANGED heartbeatVars

\* calculateValuation, were the answer stored before the loaded data is read
calculateValuationCompleteStoring(i, fetched, status, result) ==
    /\ i \in 1..Len(pendingCalcs)
    /\ LET error == CalcError(fetched, status, result)
           vr == ResultsFrom(result, stockData)
       IN  IF error = <<"TypeError: this.stockData is null">>
           THEN /\ dom' = showStatus(dom, <<"Error calculating valuation: ">> \o error,
                                     "error")
                /\ recRun' = "none"
                /\ valuationResults' =
                       [k |-> "object",
                        weighted_average |-> result.valuations.weighted_average,
                        market_comparison |-> result.market_comparison,
                        financial_data |-> result.financial_data]
           ELSE IF error # <<>>
           THEN /\ dom' = showStatus(dom, <<"Error calculating valuation: ">> \o error,
                                     "error")
                /\ recRun' = "none"
                /\ UNCHANGED valuationResults
           ELSE /\ valuationResults' = vr
                /\ dom' = showStatus(
                       [updateRecommendation(
                            updateWeightedResults(
                                updateValuationDisplay(dom, vr, stockData),
                                vr, stockData),
                            vr, stockData)
                        EXCEPT !.exportDisabled = FALSE],
                       <<"Valuation calculation completed">>, "success")
                /\ recRun' = "shown"
    /\ pendingCalcs' = Remove(pendingCalcs, i)
    /\ UNCHANGED <<currentStock, stockData, historicalData, assumptions, modelWeights,
                   pendingLoads, valuationRequests, calcCalls>>
    /\ UNCHANGED heartbeatVars

\* calculateValuation, were only the answer to the request issued last applied
calculateValuationCompleteLatest(i, fetched, status, result) ==
    /\ i \in 1..Len(pendingCalcs)
    /\ LET error == CalcError(fetched, status, result)
           vr == ResultsFrom(result, stockData)
       IN  IF error # <<>>
           THEN /\ dom' = showStatus(dom, <<"Error calculating valuation: ">> \o error,
                                     "error")
                /\ recRun' = "none"
                /\ UNCHANGED valuationResults
           ELSE IF i < Len(pendingCalcs)
           THEN UNCHANGED <<valuationResults, dom, recRun>>
           ELSE /\ valuationResults' = vr
                /\ dom' = showStatus(
                       [updateRecommendation(
                            updateWeightedResults(
                                updateValuationDisplay(dom, vr, stockData),
                                vr, stockData),
                            vr, stockData)
                        EXCEPT !.exportDisabled = FALSE],
                       <<"Valuation calculation completed">>, "success")
                /\ recRun' = "shown"
    /\ pendingCalcs' = Remove(pendingCalcs, i)
    /\ UNCHANGED <<currentStock, stockData, historicalData, assumptions, modelWeights,
                   pendingLoads, valuationRequests, calcCalls>>
    /\ UNCHANGED heartbeatVars

\* from the await of fetch to the end, for the i-th calculation in flight
calculateValuationComplete(i, fetched, status, result) ==
    /\ i \in 1..Len(pendingCalcs)
    /\ LET error == CalcError(fetched, status, result)
           vr == ResultsFrom(result, stockData)
       IN  IF error # <<>>
           THEN /\ dom' = showStatus(dom, <<"Error calculating valuation: ">> \o error,
                                     "error")
                /\ recRun' = "none"
                /\ UNCHANGED valuationResults
           ELSE /\ valuationResults' = vr
                /\ IF updateValuationDisplayThrows(vr)
                   THEN /\ dom' = showStatus(
                               updateValuationDisplay(dom, vr, stockData),
                               <<"Error calculating valuation: ", "TypeError">>, "error")
                        /\ recRun' = IF Truthy(vr.financial_data) THEN "threw"
                                     ELSE "none"
                   ELSE /\ dom' = showStatus(
                               [updateRecommendation(
                                    updateWeightedResults(
                                        updateValuationDisplay(dom, vr, stockData),
                                        vr, stockData),
                                    vr, stockData)
                                EXCEPT !.exportDisabled = FALSE],
                               <<"Valuation calculation completed">>, "success")
                        /\ recRun' = "shown"
    /\ pendingCalcs' = Remove(pendingCalcs, i)
    /\ UNCHANGED <<currentStock, stockData, historicalData, assumptions, modelWeights,
                   pendingLoads, valuationRequests, calcCalls>>
    /\ UNCHANGED heartbeatVars

----------------------------------------------------------------------------
(* The specification *)

Next ==
    \/ \E sliderId \in SliderIds, value \in SliderValues :
           updateModelWeights(sliderId, value)
    \/ normalizeWeights
    \/ \E edit \in AssumptionEdits : updateAssumptions(edit[1], edit[2])
    \/ resetAssumptions
    \/ loadStockDataEmpty
    \/ \E symbol \in Symbols : loadStockDataSend(symbol)
    \/ \E i \in 1..MaxPendingLoads, fetched \in FetchOutcomes, status \in HttpStatuses,
          symbol \in Symbols, chart \in ChartAnswers :
           \E body \in MarketData(symbol) \cup {FailureBody} :
               loadStockDataComplete(i, fetched, status, body, chart)
    \/ calculateValuationNoStock
    \/ calculateValuationSend
    \/ \E i \in 1..MaxPendingCalcs, fetched \in FetchOutcomes,
          status \in HttpStatuses, result \in EngineResults \cup {FailureBody} :
           calculateValuationComplete(i, fetched, status, result)

Spec == Init /\ [][Next]_vars

----------------------------------------------------------------------------
(* Loads and calculations that fail: two symbols, every way a request can  *)
(* end, and one answer of each kind from the engine.                       *)

LoadSymbols == {Str("VCB"), Str("FPT")}

\* fetch() resolves, rejects (network error) or is aborted by the 15 s timer
LoadFetchOutcomes == {"response", "rejected", "aborted"}

LoadHttpStatuses == {200, 404, 500, 502, 503}

LoadChartAnswers == {"ok", "failed"}

QuotedData(symbol) == {b \in MarketData(symbol) : b.current_price = Num(100000)}

\* fetch() of the valuation resolves or rejects; it has no timer
CalcFetchOutcomes == {"response", "rejected"}

CalcHttpStatuses == {200, 500}

CalcResults == {EngineResult(ShareValues, Num(98750), EngineFinancialData, Undefined)}

NextFailures ==
    \/ loadStockDataEmpty
    \/ \E symbol \in LoadSymbols : loadStockDataSend(symbol)
    \/ \E i \in 1..MaxPendingLoads, fetched \in LoadFetchOutcomes,
          status \in LoadHttpStatuses, symbol \in LoadSymbols,
          chart \in LoadChartAnswers :
           \E body \in QuotedData(symbol) \cup {FailureBody} :
               loadStockDataComplete(i, fetched, status, body, chart)
    \/ calculateValuationNoStock
    \/ calculateValuationSend
    \/ \E i \in 1..MaxPendingCalcs, fetched \in CalcFetchOutcomes,
          status \in CalcHttpStatuses, result \in CalcResults \cup {FailureBody} :
           calculateValuationComplete(i, fetched, status, result)

SpecFailures == Init /\ [][NextFailures]_vars

----------------------------------------------------------------------------
(* Requests that overtake each other: two symbols, up to two loads and two *)
(* calculations in flight, answered in any order; the engine answers for   *)
(* the symbol of the request.                                              *)

MaxRacingLoads == 2

MaxRacingCalcs == 2

\* the historical-chart request is answered OK with a series, with another
\* status, or OK with success false
RaceChartAnswers == {"ok", "failed", "unsuccessful"}

\* the app-data request is answered, or the 15 s timer aborts it
RaceFetchOutcomes == {"response", "aborted"}

\* the body GET /api/app-data/{symbol} answers with: each symbol has its own
\* number of shares
RaceData(symbol) ==
    {[k |-> "object", success |-> TRUE, symbol |-> symbol, current_price |-> Num(100000),
      shares_outstanding |-> IF symbol = Str("VCB") THEN Num(1000) ELSE Num(3000)]}

\* the bodies POST /api/valuation/{symbol} answers with: two for VCB, where the
\* assumptions sent may differ, and one for FPT
EngineAnswers(symbol) ==
    IF symbol = Str("VCB")
    THEN {EngineResult(ShareValues, a, EngineFinancialData, Undefined) :
             a \in {Num(84000), Num(98750)}}
    ELSE {EngineResult([m \in Models |-> Num(50000)], Num(50000), EngineFinancialData,
                       Undefined)}

\* every answer of the engine in the races
RaceAnswers == UNION {EngineAnswers(symbol) : symbol \in LoadSymbols}

NextRaces ==
    \/ \E symbol \in LoadSymbols : loadStockDataSendUpTo(MaxRacingLoads, symbol)
    \/ \E i \in 1..Len(pendingLoads), fetched \in RaceFetchOutcomes,
          chart \in RaceChartAnswers :
           \E body \in RaceData(pendingLoads[i].symbol) :
               loadStockDataComplete(i, fetched, 200, body, chart)
    \/ calculateValuationSendUpTo(MaxRacingCalcs)
    \/ \E i \in 1..Len(pendingCalcs), fetched \in CalcFetchOutcomes :
           \E result \in EngineAnswers(pendingCalcs[i].symbol) :
               calculateValuationComplete(i, fetched, 200, result)

SpecRaces == Init /\ [][NextRaces]_vars

----------------------------------------------------------------------------
(* The deadline of a load: loads are started with the load button, which   *)
(* takes no click while it is disabled, and the 15 s timer of the load in  *)
(* flight fires unless its requests are answered first.                    *)

\* a click on load-data-btn with a symbol in the box
loadButtonClick(symbol) ==
    /\ ~dom.loadBtnDisabled
    /\ loadStockDataSend(symbol)

\* setTimeout(() => controller.abort(), 15000) fires for the i-th load in flight
loadStockDataDeadline(i) ==
    /\ i \in 1..Len(pendingLoads)
    /\ \E body \in RaceData(pendingLoads[i].symbol) :
           loadStockDataComplete(i, "aborted", 200, body, "failed")

NextDeadline ==
    \/ \E symbol \in LoadSymbols : loadButtonClick(symbol)
    \/ loadStockDataDeadline(1)
    \/ \E chart \in RaceChartAnswers, body \in RaceData(Str("VCB")) \cup RaceData(Str("FPT")) :
           loadStockDataComplete(1, "response", 200, body, chart)
    \/ calculateValuationSend
    \/ \E fetched \in CalcFetchOutcomes, result \in RaceAnswers :
           calculateValuationComplete(1, fetched, 200, result)

\* the timer of a load in flight fires if the load stays in flight
SpecDeadline == Init /\ [][NextDeadline]_vars /\ WF_vars(loadStockDataDeadline(1))

----------------------------------------------------------------------------
(* Calls of calculateValuation and of the weight handlers with and without *)
(* a symbol and with and without results: one symbol, loads that succeed   *)
(* or time out, and answers of the engine that are displayed or that make  *)
(* the display throw.                                                      *)

\* the answers of the engine: complete, with a market comparison that has no
\* recommendation, and without financial data
CallResults ==
    {EngineResult(ShareValues, Num(98750), EngineFinancialData, Undefined),
     EngineResult(ShareValues, Num(84000), EngineFinancialData,
                  [k |-> "object", recommendation |-> Undefined]),
     EngineResult(ShareValues, Num(85000), Undefined, Undefined)}

NextCalls ==
    \/ \E sliderId \in SliderIds, value \in SliderValues :
           updateModelWeights(sliderId, value)
    \/ normalizeWeights
    \/ \E symbol \in Symbols : loadStockDataSend(symbol)
    \/ \E fetched \in RaceFetchOutcomes, symbol \in Symbols :
           \E body \in QuotedData(symbol) :
               loadStockDataComplete(1, fetched, 200, body, "ok")
    \/ calculateValuationNoStock
    \/ calculateValuationSend
    \/ \E fetched \in CalcFetchOutcomes, result \in CallResults :
           calculateValuationComplete(1, fetched, 200, result)

SpecCalls == Init /\ [][NextCalls]_vars

----------------------------------------------------------------------------
(* Weights and assumptions: sliders put at the ends of their range and at  *)
(* positions whose totals land on 100, a tenth off it and far from it,     *)
(* with and without a valuation held.                                      *)

\* <input type="range" min="0" max="100" step="0.1">
SliderMin == 0

SliderMax == 100

StepsPerUnit == 10

\* the positions the sliders are put at, in steps
SliderPositions == {SliderMin * StepsPerUnit, 251, 333, SliderMax * StepsPerUnit}

\* parseFloat(e.target.value) at those positions
WeightValues == {Frac(p, StepsPerUnit) : p \in SliderPositions}

\* a number typed into the assumptions form
WeightAssumptionEdits == {<<"wacc", Num(9)>>}

WeightsSymbol == Str("VCB")

NextWeights ==
    \/ \E sliderId \in SliderIds, value \in WeightValues :
           updateModelWeights(sliderId, value)
    \/ normalizeWeights
    \/ \E edit \in WeightAssumptionEdits : updateAssumptions(edit[1], edit[2])
    \/ resetAssumptions
    \/ loadStockDataSend(WeightsSymbol)
    \/ \E body \in QuotedData(WeightsSymbol) :
           loadStockDataComplete(1, "response", 200, body, "ok")
    \/ calculateValuationSend
    \/ \E result \in CalcResults : calculateValuationComplete(1, "response", 200, result)

SpecWeights == Init /\ [][NextWeights]_vars

----------------------------------------------------------------------------
(* The heartbeat of the later app.js (src/unnamed/part_001): the page is   *)
(* opened at one of three addresses, the timer fires, and each GET /health *)
(* resolves or rejects, while a symbol is loaded and a slider is moved.    *)

LOCALHOST ==
    <<"l", "o", "c", "a", "l", "h", "o", "s", "t">>

RenderUrl ==
    <<"h", "t", "t", "p", "s", ":", "/", "/", "v", "a", "l", "u", "a", "t",
      "i", "o", "n", "-", "e", "1", "u", "e", ".", "o", "n", "r", "e", "n",
      "d", "e", "r", ".", "c", "o", "m">>

\* window.location: the hostname and the origin the page is opened at
Locations ==
    {[hostname |-> LOCALHOST,
      origin |->
    <<"h", "t", "t", "p", ":", "/", "/", "l", "o", "c", "a", "l", "h", "o",
      "s", "t">>],
     [hostname |->
    <<"a", "p", "p", ".", "l", "o", "c", "a", "l", "h", "o", "s", "t">>,
      origin |->
    <<"h", "t", "t", "p", ":", "/", "/", "a", "p", "p", ".", "l", "o", "c",
      "a", "l", "h", "o", "s", "t">>],
     [hostname |->
    <<"v", "n", ".", "a", "p", "p">>,
      origin |->
    <<"h", "t", "t", "p", "s", ":", "/", "/", "v", "n", ".", "a", "p", "p">>]}

\* this.apiBaseUrl
ApiBaseUrl(location) ==
    IF location.hostname = LOCALHOST THEN RenderUrl ELSE location.origin

\* 10 * 60 * 1000
HeartbeatPeriod == 600000

MaxPendingBeats == 1

MaxHeartbeats == 3

\* setupHeartbeat: the timer and the first heartbeat, unless the address of the
\* API has localhost in it
setupHeartbeat(location) ==
    IF ~Includes(ApiBaseUrl(location), LOCALHOST)
    THEN /\ heartbeatInterval = [k |-> "interval", ms |-> HeartbeatPeriod]
         /\ pendingBeats = 1
         /\ heartbeatsSent = 1
    ELSE /\ heartbeatInterval = NULL
         /\ pendingBeats = 0
         /\ heartbeatsSent = 0

InitHeartbeat ==
    /\ SessionInit
    /\ \E location \in Locations : setupHeartbeat(location)
    /\ heartbeatsFailed = 0

\* the timer fires: sendHeartbeat up to its await
heartbeatTick ==
    /\ heartbeatInterval # NULL
    /\ pendingBeats < MaxPendingBeats
    /\ heartbeatsSent < MaxHeartbeats
    /\ pendingBeats' = pendingBeats + 1
    /\ heartbeatsSent' = heartbeatsSent + 1
    /\ UNCHANGED <<sessionVars, heartbeatInterval, heartbeatsFailed>>

\* sendHeartbeat, were a failed heartbeat to stop the timer and tell the user
sendHeartbeatCompleteStopping(fetched, status) ==
    /\ pendingBeats > 0
    /\ pendingBeats' = pendingBeats - 1
    /\ IF fetched = "response" /\ ResponseOk(status)
       THEN UNCHANGED <<heartbeatsFailed, heartbeatInterval, dom>>
       ELSE /\ heartbeatsFailed' = heartbeatsFailed + 1
            /\ heartbeatInterval' = NULL
            /\ dom' = showStatus(dom, <<"Unable to connect to server">>, "error")
    /\ UNCHANGED <<currentStock, stockData, historicalData, assumptions, modelWeights,
                   valuationResults, pendingLoads, pendingCalcs, valuationRequests,
                   calcCalls, recRun, heartbeatsSent>>

\* sendHeartbeat from its await on: both outcomes are only logged
sendHeartbeatComplete(fetched, status) ==
    /\ pendingBeats > 0
    /\ pendingBeats' = pendingBeats - 1
    /\ heartbeatsFailed' =
           IF fetched = "response" /\ ResponseOk(status)
           THEN heartbeatsFailed ELSE heartbeatsFailed + 1
    /\ UNCHANGED <<sessionVars, heartbeatInterval, heartbeatsSent>>

\* fetch() of /health resolves or rejects
BeatFetchOutcomes == {"response", "rejected"}

BeatHttpStatuses == {200, 503}

NextHeartbeat ==
    \/ heartbeatTick
    \/ \E fetched \in BeatFetchOutcomes, status \in BeatHttpStatuses :
           sendHeartbeatComplete(fetched, status)
    \/ \E sliderId \in SliderIds, value \in SliderValues :
           updateModelWeights(sliderId, value)
    \/ \E edit \in WeightAssumptionEdits : updateAssumptions(edit[1], edit[2])
    \/ loadStockDataSend(WeightsSymbol)
    \/ \E fetched \in BeatFetchOutcomes, body \in QuotedData(WeightsSymbol) :
           loadStockDataComplete(1, fetched, 200, body, "ok")
    \/ calculateValuationSend
    \/ \E result \in CalcResults : calculateValuationComplete(1, "response", 200, result)

SpecHeartbeat == InitHeartbeat /\ [][NextHeartbeat]_vars

----------------------------------------------------------------------------
(* Properties.  The weighted target price of the specification is written  *)
(* here from its formula; the page shows what the handlers above wrote.    *)

\* valuation results are held
Held == Truthy(valuationResults)

\* the handler that ran last called updateRecommendation on the held results
Assessed == recRun # "none"

\* the handler that ran last was a weight handler that found results held
WeightsRefreshed ==
    /\ recRun = "shown"
    /\ dom.status.message # <<"Valuation calculation completed">>

Contribution(value, weight) ==
    IF IsNum(value) THEN Div(Mul(value, weight), Num(WeightTotal)) ELSE Num(0)

\* fcfe*w_fcfe/100 + fcff*w_fcff/100 + justified_pe*w_pe/100 + justified_pb*w_pb/100
WeightedSum(vr, weights) ==
    Add(Add(Contribution(vr.fcfe.shareValue, weights.fcfe),
            Contribution(vr.fcff.shareValue, weights.fcff)),
        Add(Contribution(vr.justified_pe.shareValue, weights.justified_pe),
            Contribution(vr.justified_pb.shareValue, weights.justified_pb)))

AllValuesPresent(vr) == \A m \in Models : IsNum(vr[m].shareValue)

\* the engine response carries a recommendation
CarriesRecommendation(vr) ==
    /\ Truthy(vr.market_comparison)
    /\ vr.market_comparison.recommendation.k = "str"

LocalRecommendation(upside) ==
    IF Gt(upside, Num(BuyThreshold)) THEN BUY
    ELSE IF Lt(upside, Num(-BuyThreshold)) THEN SELL
    ELSE HOLD

\* C1: whenever the page has just been given a target price and all four
\* per-share values are held, the target price shown is
\* fcfe*w_fcfe/100 + fcff*w_fcff/100 + justified_pe*w_pe/100 +
\* justified_pb*w_pb/100 of the held values under the current weights, with no
\* renormalisation.
C1_WeightedTargetPrice ==
    (Assessed /\ AllValuesPresent(valuationResults)) =>
        /\ dom.targetPrice = formatCurrency(WeightedSum(valuationResults, modelWeights))
        /\ dom.weightedResult = dom.targetPrice

\* C2: every step that changes the weights while results are held leaves the
\* page showing the target price, the upside and the recommendation computed
\* from the held per-share values under the new weights.
C2_WeightChangeRecomputes ==
    [][(modelWeights' # modelWeights /\ Held) =>
          LET target == WeightedSum(valuationResults, modelWeights')
              upside == UpsidePercent(target, stockData.current_price)
          IN  /\ dom'.targetPrice = formatCurrency(target)
              /\ dom'.weightedDiff = SignedPercentText(upside)
              /\ (~CarriesRecommendation(valuationResults) =>
                      dom'.recommendation = LocalRecommendation(upside))]_vars

\* C3: when the held engine response carries no recommendation, the
\* recommendation shown after an assessment is BUY iff the upside is above 15,
\* SELL iff it is below -15 and HOLD otherwise, both boundaries being HOLD.
C3_LocalThresholds ==
    (Assessed /\ ~CarriesRecommendation(valuationResults)) =>
        dom.recommendation =
            LocalRecommendation(UpsidePercent(valuationResults.weighted_average,
                                              stockData.current_price))

\* The thresholds of C3 where the response has no market comparison at all.
LocalThresholdsWithoutComparison ==
    (Assessed /\ ~Truthy(valuationResults.market_comparison)) =>
        /\ recRun = "shown"
        /\ dom.recommendation =
               LocalRecommendation(UpsidePercent(valuationResults.weighted_average,
                                                 stockData.current_price))

\* the category of an engine recommendation: BUY first, then SELL
Category(text) ==
    IF Includes(text, BUY) THEN "positive"
    ELSE IF Includes(text, SELL) THEN "negative"
    ELSE "neutral"

\* C4: whenever the held engine response supplies
\* market_comparison.recommendation, updateRecommendation shows that string,
\* whatever the upside, with the category positive if it contains BUY, else
\* negative if it contains SELL, else neutral.
C4_EngineRecommendationShown ==
    (Assessed /\ CarriesRecommendation(valuationResults)) =>
        LET text == valuationResults.market_comparison.recommendation.s
        IN  /\ recRun = "shown"
            /\ dom.recommendation = text
            /\ dom.finalRecommendation = text
            /\ dom.recommendationStatus = Category(text)
            /\ dom.finalRecommendationStatus = Category(text)

\* the engine says STRONG SELL at an upside of +16%, and STRONG SELL is shown
C4_Witness ==
    /\ recRun = "shown"
    /\ Held
    /\ valuationResults.weighted_average = Num(116000)
    /\ stockData.current_price = Num(100000)
    /\ CarriesRecommendation(valuationResults)
    /\ valuationResults.market_comparison.recommendation.s = STRONG_SELL
    /\ dom.recommendation = STRONG_SELL
    /\ dom.recommendationStatus = "negative"

\* C5: when the engine response carries no recommendation, market_comparison
\* being absent or present without the field, updateRecommendation completes
\* without an error and shows one of the local BUY, SELL and HOLD.
C5_NoRecommendationCompletes ==
    (Assessed /\ ~CarriesRecommendation(valuationResults)) =>
        /\ recRun = "shown"
        /\ dom.recommendation \in {BUY, SELL, HOLD}

\* a percentage on the page is a finite number
Finite(text) == text.k = "pct" => "tenths" \in DOMAIN text.val

\* C6: no infinite or NaN upside reaches the page: with a current price of 0
\* the upside is an error instead of a displayed percentage.
C6_NoInfiniteUpsideShown ==
    /\ Finite(dom.weightedDiff)
    /\ Finite(dom.summaryPotential)
    /\ Finite(dom.returnValue)
    /\ (Assessed /\ stockData.current_price = Num(0)) => dom.status.type = "error"

\* C7: for a non-zero current price the upside shown, and the upside the local
\* recommendation is taken from, is (target - price) / price * 100 of the target
\* price shown; it is stated here in integers, to one decimal, the price being
\* positive.
C7_UpsideFormula ==
    (Assessed /\ IsNum(stockData.current_price) /\ stockData.current_price.n > 0
              /\ IsNum(valuationResults.weighted_average)) =>
        LET T == valuationResults.weighted_average
            C == stockData.current_price
            diff == T.n * C.d - C.n * T.d
            den == C.n * T.d
            shown == [k |-> "fixed", neg |-> diff < 0,
                      tenths |-> RoundDiv(1000 * Abs(diff), den)]
        IN  /\ dom.targetPrice = formatCurrency(T)
            /\ dom.weightedDiff = [k |-> "pct", plus |-> diff > 0, val |-> shown]
            /\ dom.summaryPotential = [k |-> "pct", plus |-> FALSE, val |-> shown]
            /\ dom.returnValue = [k |-> "pct", plus |-> FALSE, val |-> shown]
            /\ (recRun = "shown" /\ ~Truthy(valuationResults.market_comparison)) =>
                   /\ dom.recommendation = BUY <=> 100 * diff > BuyThreshold * den
                   /\ dom.recommendation = SELL <=> 100 * diff < -BuyThreshold * den

\* a target of 84000 at a price of 100000 is shown as -16.0% and gives SELL
C7_Witness ==
    /\ recRun = "shown"
    /\ Held
    /\ stockData.current_price = Num(100000)
    /\ valuationResults.weighted_average = Num(84000)
    /\ dom.weightedDiff = [k |-> "pct", plus |-> FALSE,
                           val |-> [k |-> "fixed", neg |-> TRUE, tenths |-> 160]]
    /\ dom.recommendation = SELL

\* C8: a per-share value absent from the engine response contributes 0 to the
\* weighted target price shown.
C8_AbsentValueContributesZero ==
    (Assessed /\ ~AllValuesPresent(valuationResults)) =>
        dom.targetPrice = formatCurrency(WeightedSum(valuationResults, modelWeights))

\* C9: a step that changes the weights while results are held leaves the four
\* held per-share values, and the four values shown, as they were.
C9_WeightsLeaveValues ==
    [][(modelWeights' # modelWeights /\ Held) =>
          /\ Truthy(valuationResults')
          /\ \A m \in Models :
                 valuationResults'[m].shareValue = valuationResults[m].shareValue
          /\ dom'.modelResults = dom.modelResults]_vars

\* a weight handler has run on held results, and the four values are the engine's
C9_Witness ==
    /\ WeightsRefreshed
    /\ modelWeights # DefaultWeights
    /\ Held
    /\ \A m \in Models : valuationResults[m].shareValue = ShareValues[m]
    /\ dom.modelResults = [m \in Models |-> formatCurrency(ShareValues[m])]

\* C10: the requests sent to the engine are as many as the calls of
\* calculateValuation made with a symbol loaded; weight edits, normalizeWeights
\* and assumption edits send none.
C10_RequestsAreCalculations == valuationRequests = calcCalls

\* one calculation was asked for, and since then the assumptions and the weights
\* were edited
C10_Witness ==
    /\ valuationRequests = 1
    /\ WeightsRefreshed
    /\ modelWeights # DefaultWeights
    /\ assumptions # DefaultAssumptions

\* a loadStockData call has just ended in its catch
LoadFailedStep ==
    /\ Len(pendingLoads') < Len(pendingLoads)
    /\ dom'.status.type = "error"

\* a loadStockData call has just ended with the data loaded
LoadSucceededStep ==
    /\ Len(pendingLoads') < Len(pendingLoads)
    /\ dom'.status.type = "success"

\* a calculateValuation call has just ended in its catch
CalcFailedStep ==
    /\ Len(pendingCalcs') < Len(pendingCalcs)
    /\ dom'.status.type = "error"

\* C11: after a data load that failed (network error, non-OK status, timeout
\* or success false) the current symbol, the market data, the historical
\* series and the valuation results are all empty, whatever was held before.
C11_FailedLoadEmptiesSession ==
    [][LoadFailedStep =>
          /\ currentStock' = NULL
          /\ stockData' = NULL
          /\ historicalData' = NULL
          /\ valuationResults' = NULL]_vars

\* a load has timed out after a calculation was asked for, and nothing is held
C11_Witness ==
    /\ dom.status.type = "error"
    /\ dom.status.message = <<"Timeout - Please try again later.">>
    /\ calcCalls >= 1
    /\ pendingCalcs = <<>>
    /\ currentStock = NULL
    /\ stockData = NULL
    /\ historicalData = NULL
    /\ valuationResults = NULL

\* C12: once a load of another symbol than the loaded one has succeeded, no
\* valuation results of the previous symbol are held.
C12_FreshLoadDropsResults ==
    [][(LoadSucceededStep /\ currentStock # NULL /\ currentStock' # currentStock) =>
          valuationResults' = NULL]_vars

\* C13: a calculation that failed (non-OK status, success false or network
\* error) leaves the current symbol, the market data and the historical series
\* as they were.
C13_FailedCalcKeepsData ==
    [][CalcFailedStep =>
          /\ currentStock' = currentStock
          /\ stockData' = stockData
          /\ historicalData' = historicalData]_vars

\* a calculation has failed with a symbol and its data still loaded
C13_Witness ==
    /\ dom.status.type = "error"
    /\ dom.status.message[1] = "Error calculating valuation: "
    /\ calcCalls >= 1
    /\ currentStock = Str("VCB")
    /\ Truthy(stockData)
    /\ Truthy(historicalData)

\* C14: a calculation that failed leaves no weighted target price, upside or
\* recommendation of an earlier calculation, neither held nor shown.
C14_FailedCalcClearsOutput ==
    [][CalcFailedStep =>
          /\ valuationResults' = NULL
          /\ dom'.targetPrice = DashText
          /\ dom'.weightedResult = DashText
          /\ dom'.weightedDiff = DashText
          /\ dom'.recommendation \notin {BUY, SELL, HOLD}]_vars

\* C19: a 404 of the app-data request is reported as no data for the symbol,
\* and every 5xx status as a server error.
C19_StatusMessages ==
    [][\A status \in LoadHttpStatuses :
          (\E i \in 1..MaxPendingLoads, symbol \in LoadSymbols,
              chart \in LoadChartAnswers :
               \E body \in QuotedData(symbol) \cup {FailureBody} :
                   loadStockDataComplete(i, "response", status, body, chart)) =>
              /\ status = 404 =>
                     dom'.status.message =
                         <<"Data loading error: ", "No data found for this stock symbol">>
              /\ status >= 500 =>
                     dom'.status.message =
                         <<"Data loading error: ", "Server error while loading data">>]_vars

\* a weight within the range of its slider
InRange(w) == IsNum(w) /\ ~Lt(w, Num(SliderMin)) /\ ~Gt(w, Num(SliderMax))

\* C15: in every reachable state each of the four model weights lies in
\* [0, 100], whatever weight edits and normalize actions came before
C15_WeightsInRange == \A m \in Models : InRange(modelWeights[m])

\* C15: weights at both ends of the range after three edits, with a
\* sum that is not 100
C15_Witness ==
    /\ modelWeights.fcfe = Num(SliderMax)
    /\ modelWeights.fcff = Num(SliderMin)
    /\ modelWeights.justified_pe = Num(DefaultWeight)
    /\ modelWeights.justified_pb = Frac(333, 10)
    /\ dom.totalWeight = ToFixed1(Frac(1583, 10))
    /\ dom.totalWeightClass = "weight-total-incorrect"

\* a step of updateModelWeights or of normalizeWeights
WeightsStep ==
    \/ \E sliderId \in SliderIds, value \in SliderValues \cup WeightValues :
           updateModelWeights(sliderId, value)
    \/ normalizeWeights

\* the sum of the four weights as the numbers the sliders show
SumOfWeights(weights) ==
    Add(Add(Add(weights.fcfe, weights.fcff), weights.justified_pe), weights.justified_pb)

\* the sum is more than 0.1 away from 100
DeviatesFromTotal(weights) ==
    Gt(MathAbs(Sub(SumOfWeights(weights), Num(WeightTotal))), Frac(1, 10))

\* C16: after every weight edit and every normalize the total indicator is
\* marked incorrect exactly when the sum of the four weights deviates from 100
\* by more than 0.1, and marked correct otherwise
C16_IndicatorMarksDeviation ==
    [][WeightsStep =>
        /\ dom'.totalWeightClass \in {"weight-total-correct", "weight-total-incorrect"}
        /\ dom'.totalWeightClass = "weight-total-incorrect"
               <=> DeviatesFromTotal(modelWeights')]_vars

\* C17: normalizeWeights sets all four weights to 25 whatever they were, so
\* that their total is 100 and the total indicator is marked correct, and a
\* second normalizeWeights writes the page the first one left
C17_NormalizeSetsQuarters ==
    [][normalizeWeights =>
        /\ \A m \in Models : modelWeights'[m] = Num(25)
        /\ SumOfWeights(modelWeights') = Num(100)
        /\ dom'.totalWeight = ToFixed1(Num(100))
        /\ dom'.totalWeightClass = "weight-total-correct"
        /\ PageAfterWeights(dom', modelWeights', valuationResults', stockData') = dom']_vars

\* C17: the weights are back at 25 each with a valuation held, and the weight
\* handler that ran last was not a slider: no slider of this specification
\* is put at 25
C17_Witness ==
    /\ Num(DefaultWeight) \notin WeightValues
    /\ Held
    /\ WeightsRefreshed
    /\ \A m \in Models : modelWeights[m] = Num(25)
    /\ dom.totalWeight = ToFixed1(Num(100))
    /\ dom.totalWeightClass = "weight-total-correct"

\* (8.0, 3.0, 10.5, 12.0, 20.0, 5)
HardcodedAssumptions ==
    [revenueGrowth |-> Num(8), terminalGrowth |-> Num(3), wacc |-> Frac(21, 2),
     requiredReturn |-> Num(12), taxRate |-> Num(20), projectionYears |-> Num(5)]

\* C18: in the initial state and after every resetAssumptions the six
\* assumptions are (8.0, 3.0, 10.5, 12.0, 20.0, 5), whatever was typed before,
\* and resetAssumptions changes no weight, no loaded data and no results
C18_ResetRestoresDefaults ==
    /\ assumptions = HardcodedAssumptions
    /\ [][resetAssumptions =>
            /\ assumptions' = HardcodedAssumptions
            /\ UNCHANGED <<modelWeights, currentStock, stockData, historicalData,
                           valuationResults>>]_vars

\* C18: the defaults are back with a valuation held and a slider moved: after
\* the calculation only resetAssumptions leaves its status message, no
\* recommendation run and the defaults behind
C18_Witness ==
    /\ Held
    /\ dom.status.type = "success"
    /\ dom.status.message = <<"Valuation calculation completed">>
    /\ recRun = "none"
    /\ assumptions = HardcodedAssumptions
    /\ stockData # NULL
    /\ modelWeights.fcfe = Num(100)

\* a step of the heartbeat: the timer firing or a GET /health ending
HeartbeatStep ==
    \/ heartbeatTick
    \/ \E fetched \in BeatFetchOutcomes, status \in BeatHttpStatuses :
           sendHeartbeatComplete(fetched, status)

\* C20: a heartbeat, sent, answered or failed, changes nothing in the session
\* (symbol, data, weights, assumptions, results) and nothing on the page, so
\* no status banner, and leaves the timer running: after a failed heartbeat
\* the next one is sent as soon as the timer fires
C20_HeartbeatFireAndForget ==
    /\ [][HeartbeatStep =>
            /\ UNCHANGED <<currentStock, stockData, historicalData, modelWeights,
                           assumptions, valuationResults>>
            /\ dom' = dom
            /\ UNCHANGED <<pendingLoads, pendingCalcs, valuationRequests, calcCalls>>
            /\ heartbeatInterval' = heartbeatInterval]_vars
    /\ [](heartbeatsFailed > 0 /\ pendingBeats < MaxPendingBeats
             /\ heartbeatsSent < MaxHeartbeats
          => ENABLED heartbeatTick)

\* C20: a heartbeat has failed and another one is on its way, with a symbol
\* loaded and its success message still shown
C20_Witness ==
    /\ heartbeatsFailed = 1
    /\ heartbeatsSent = 2
    /\ pendingBeats = 1
    /\ heartbeatInterval # NULL
    /\ currentStock = WeightsSymbol
    /\ dom.status.type = "success"

C22_LoadsAppliedAsProcessed ==
    [][\A i \in 1..MaxRacingLoads, symbol \in LoadSymbols, chart \in RaceChartAnswers :
          \A body \in RaceData(symbol) :
              (/\ Len(pendingLoads) = 2
               /\ loadStockDataComplete(i, "response", 200, body, chart))
              => /\ symbol = pendingLoads[i].symbol
                 /\ currentStock' = symbol
                 /\ stockData' = body
                 /\ dom'.companySymbol = symbol]_vars

\* C22: both loads are over, FPT is the symbol asked for last and the session
\* holds VCB with its data
C22_Witness ==
    /\ pendingLoads = <<>>
    /\ dom.stockSymbol = Str("FPT")
    /\ currentStock = Str("VCB")
    /\ Truthy(stockData)
    /\ stockData.symbol = Str("VCB")
    /\ dom.companySymbol = Str("VCB")
    /\ dom.status.type = "success"
    /\ dom.status.message = <<"Data loaded successfully">>

\* a load in flight is ended by its timer
DeadlineStep == \E i \in 1..MaxRacingLoads : loadStockDataDeadline(i)

RoomForCalculation == Len(pendingCalcs) < MaxPendingCalcs /\ calcCalls < MaxCalcCalls

\* C24: calculateValuation sends a request if and only if a symbol is loaded:
\* without one it shows its error and changes nothing else, and with one the
\* request goes out whatever the weights total
C24_RequestIffSymbol ==
    /\ [][valuationRequests' # valuationRequests =>
            /\ Truthy(currentStock)
            /\ valuationRequests' = valuationRequests + 1
            /\ Len(pendingCalcs') = Len(pendingCalcs) + 1]_vars
    /\ [][calculateValuationNoStock =>
            /\ dom' = showStatus(dom, <<"Please load company data first">>, "error")
            /\ UNCHANGED <<currentStock, stockData, historicalData, assumptions,
                           modelWeights, valuationResults, pendingCalcs,
                           valuationRequests>>]_vars
    /\ [](/\ Truthy(currentStock) => ~ENABLED calculateValuationNoStock
          /\ ~Truthy(currentStock) =>
                 ENABLED calculateValuationNoStock /\ ~ENABLED calculateValuationSend
          /\ Truthy(currentStock) /\ RoomForCalculation => ENABLED calculateValuationSend)

\* C24: a request is on its way with weights that total 125
C24_Witness ==
    /\ pendingCalcs # <<>>
    /\ valuationRequests = 1
    /\ dom.status.type = "info"
    /\ dom.status.message = <<"Calculating valuation models...">>
    /\ dom.totalWeight = ToFixed1(Num(125))
    /\ dom.totalWeightClass = "weight-total-incorrect"

\* C25: a weight edit or a normalize made while no results are held, before
\* any successful calculation or after the session was cleared, runs neither the
\* aggregation nor the recommendation: it changes the weights and the weight
\* display and nothing else, so not the target price, the upside or the
\* recommendation
C25_NoResultsNoAggregation ==
    [][WeightsStep /\ ~Held =>
        /\ recRun' = "none"
        /\ dom' = [dom EXCEPT !.weightValues = dom'.weightValues,
                              !.totalWeight = dom'.totalWeight,
                              !.totalWeightClass = dom'.totalWeightClass]
        /\ UNCHANGED <<valuationResults, currentStock, stockData, historicalData,
                       assumptions, valuationRequests>>]_vars

\* C25: a slider was moved after a timed-out load had cleared a session in
\* which a calculation was made: the page shows the new weights and the dashes
\* of the cleared session
C25_Witness ==
    /\ ~Held
    /\ calcCalls >= 1
    /\ dom.status.type = "error"
    /\ dom.status.message = <<"Timeout - Please try again later.">>
    /\ modelWeights.fcfe = Num(50)
    /\ dom.weightValues.fcfe = PercentText(FALSE, Num(50))
    /\ dom.totalWeight = ToFixed1(Num(125))
    /\ dom.targetPrice = DashText
    /\ dom.recommendation = Dashes
    /\ recRun = "none"

\* C26: in every reachable state, whatever the order of loads, calculations
\* and their answers, held results come with a loaded snapshot and a current
\* symbol: an answer of the engine processed after a failed load has emptied
\* the session is not stored
C26_ResultsImplyData ==
    Held => Truthy(stockData) /\ Truthy(currentStock)

\* C26: the answer of the engine came after a timed-out load had emptied the
\* session, and nothing is held
C26_Witness ==
    /\ dom.status.type = "error"
    /\ dom.status.message =
           <<"Error calculating valuation: ", "TypeError: this.stockData is null">>
    /\ pendingCalcs = <<>>
    /\ calcCalls >= 1
    /\ ~Held
    /\ ~Truthy(stockData)
    /\ ~Truthy(currentStock)

\* the held results are an answer of the engine for this symbol, with the
\* equity values of these data
ResultsBelongTo(symbol, sd) ==
    /\ \E result \in EngineAnswers(symbol) :
           /\ valuationResults.weighted_average = result.valuations.weighted_average
           /\ valuationResults.fcfe.shareValue = result.valuations.fcfe
    /\ Truthy(sd)
    /\ sd.symbol = symbol
    /\ valuationResults.fcfe.equityValue =
           Mul(valuationResults.fcfe.shareValue, sd.shares_outstanding)
    /\ valuationResults.fcff.equityValue =
           Mul(valuationResults.fcff.shareValue, sd.shares_outstanding)

\* C27: whenever results are held they answer a request made for the symbol
\* that is current now, with equity values from that symbol's shares
\* outstanding; an answer for another symbol than the current one is not
\* applied
C27_ResultsOfCurrentSymbol ==
    /\ [](Held => ResultsBelongTo(currentStock, stockData))
    /\ [][\A i \in 1..MaxRacingCalcs, result \in RaceAnswers :
             (/\ calculateValuationComplete(i, "response", 200, result)
              /\ pendingCalcs[i].symbol # currentStock)
             => UNCHANGED valuationResults]_vars

\* C28: whenever calculateValuation ends by reporting an error the held
\* results are those held before the call, and results that change come with
\* the success message: an answer is applied completely or not at all
C28_ErrorLeavesResults ==
    /\ [][CalcFailedStep => valuationResults' = valuationResults]_vars
    /\ [][Len(pendingCalcs') < Len(pendingCalcs) /\ valuationResults' # valuationResults
            => dom'.status = [message |-> <<"Valuation calculation completed">>,
                              type |-> "success"]]_vars

\* the historical-chart request is answered with a status that is not OK, or
\* OK with success false
ChartFailures == RaceChartAnswers \ {"ok"}

\* C29: a historical-chart answer that is not OK or has success false does not
\* fail the load: with a successful app-data answer the symbol and the
\* snapshot are loaded, no historical series is held and the charts are
\* cleared
C29_ChartFailureTolerated ==
    [][\A i \in 1..MaxRacingLoads, symbol \in LoadSymbols, chart \in ChartFailures :
          \A body \in RaceData(symbol) :
              loadStockDataComplete(i, "response", 200, body, chart)
              => /\ currentStock' = symbol
                 /\ stockData' = body
                 /\ historicalData' = NULL
                 /\ dom'.charts = NULL
                 /\ dom'.companySymbol = symbol
                 /\ dom'.status = [message |-> <<"Data loaded successfully">>,
                                   type |-> "success"]]_vars

\* C29: FPT is loaded without a series and with empty charts
C29_Witness ==
    /\ ChartFailures # {}
    /\ pendingLoads = <<>>
    /\ currentStock = Str("FPT")
    /\ Truthy(stockData)
    /\ stockData.symbol = Str("FPT")
    /\ historicalData = NULL
    /\ dom.charts = NULL
    /\ dom.status.type = "success"
    /\ dom.status.message = <<"Data loaded successfully">>

\* C30: whenever at least one load is in flight the load button is disabled
\* and shows the loading label, and it is given back only when no load
\* remains in flight
C30_ButtonWhileLoading ==
    /\ [](pendingLoads # <<>> =>
              dom.loadBtnDisabled /\ dom.loadBtn = "Loading...")
    /\ [][dom.loadBtnDisabled /\ ~dom'.loadBtnDisabled => pendingLoads' = <<>>]_vars

====
